---- MODULE Spec2Model ----
(***************************************************************************)
(* RedditRover: the ingestion / dispatch / rescheduling core.              *)
(*   core/database.py    Database   - the sqlite store                     *)
(*   core/redditrover.py RedditRover - stream threads, dispatcher and the  *)
(*                                     update thread                       *)
(* The three Database objects of RedditRover are three connections to the  *)
(* same sqlite file opened in autocommit mode (isolation_level=None), so   *)
(* the tables are shared and every statement is one atomic step; the meta  *)
(* cache (_meta_push, _date) is private to each Database object.           *)
(***************************************************************************)
EXTENDS Integers, Sequences, FiniteSets, TLC

\* ------------------------------------------------------------------ bounds
MaxTicks == 2              \* seconds the wall clock advances one by one
MaxHours == 1              \* full hours the wall clock advances
MaxCycles == 2             \* passes of the update thread's loop
MaxCalls == 2              \* calls of comment_submission_action on the store alone
MaxItems == 2              \* items pulled from the two streams together
MaxRowid == 4              \* largest _ROWID_ handed out in table modules
MaxBans  == 1              \* rows per ban table
MaxTasks == 2              \* rows ever inserted into update_threads
MaxAdmin == 2              \* administrative calls on the Database API

\* --------------------------------------------------------- program values
NULL      == 0             \* SQL NULL in an integer column (rowids start at 1)
NullTime  == -1            \* SQL NULL in a datetime column
HourSecs  == 3600          \* time.time() // 3600 and self._date * 3600
DaySecs   == 86400         \* DATE(ts, 'unixepoch')
MAX_CACHE == 500           \* self._MAX_CACHE
RetryTries == 2            \* attempts made by the retry decorator
DeleteAfter == 1           \* self.delete_after (bot_config.ini)

NoAuthor == "None"         \* thing.author of a deleted account
NoThing  == [name |-> "none", kind |-> "none", author |-> NoAuthor, subreddit |-> "none"]

BotNames == {"A", "B", "C"}
\* the plugins found by load_responders, in module order
Plugins == <<"A", "B", "C">>
\* responder.session.user.name and responder.SELF_IGNORE of each plugin
USERNAME    == [b \in BotNames |-> IF b = "A" THEN "alice" ELSE "bot" \o b]
SELF_IGNORE == [b \in BotNames |-> b # "B"]

Users      == {"alice"}
Subreddits == {"pics"}
\* the items the two streams deliver
Comments    == {[name |-> "t1_c1", kind |-> "comment", author |-> "alice", subreddit |-> "pics"]}
Submissions == {[name |-> "t3_s1", kind |-> "submission", author |-> NoAuthor, subreddit |-> "pics"]}
Things      == Comments \cup Submissions
Streams     == {"comment", "submission"}
StreamOf(s) == IF s = "comment" THEN Comments ELSE Submissions

\* what a reaction entry point (execute_*) can do
Outcomes == {"True", "False", "Forbidden", "NotFound", "DELETED_LINK", "APIException",
             "InvalidSubmission", "ClientException", "ValueError"}
\* what update_procedure / get_info / get_unread_messages can do
UpdOutcomes == {"ok", "APIException", "ClientException", "ValueError"}
IsPRAWException(o) == o \in {"APIException", "DELETED_LINK", "ClientException"}

Lifetimes == {1, 2}
\* any int a plugin can hand to to_update as lifetime: negative, zero, seconds, or (as the
\* docstring has it) the moment in unix time
AnyLifetimes == {-1, 0, 1, 2}
Intervals == {0, 1}

VARIABLES
    now, ticks, hours,          \* wall clock (seconds) and how often it advanced
    modules,                    \* table modules: set of [rowid, module_name]
    storage,                    \* table storage: bag of [thing_id, bot_module, timestamp]
    stats,                      \* table stats: bag of [id, bot_module]
    userbans, subbans,          \* ban tables: bags of [subject, bot_module]
    update_threads,             \* table update_threads: set of rows (rid = _ROWID_)
    meta_stats,                 \* table meta_stats: day -> counters
    meta_push, meta_date,       \* Database._meta_push / _date of each Database object
    responders,                 \* RedditRover.responders
    catch_http_exception,       \* RedditRover.catch_http_exception
    pc, thing, ri,              \* per stream thread: position, current item, responder index
    pulled,                     \* per stream thread: items pulled so far
    lock, upc, uri, threads, ti, tries,  \* update thread
    nextRid, admin, calls,      \* rows inserted into update_threads; admin calls; action calls
    phase, loaded, exitStatus,  \* RedditRover.__init__: "load" / "run" / "exit"; candidates seen; exit status
    regPending,                 \* register_module of another process: name counted as absent, INSERT to come
    wipeStep,                   \* wipe_module in progress: name, statements done, whether rows were deleted
    cycles,                     \* passes of the update thread's loop started
    \* history variables (not program state)
    invoked, reacted, raised,   \* per stream, for the current item: who was called / reacted / raised
    errSeen,                    \* per stream: an error occurred while dispatching an earlier item
    fatal,                      \* per stream: the exception that ended the thread
    recorded, recordedAdm,      \* (item, handler) pairs recorded and not yet cleaned up
    cbCount, lastCb,            \* per tick: callback invocations per task; the last invocation
    writeAt,                    \* time of the timestamp write of the running update_action
    selected,                   \* per tick: tasks selected as due
    last,                       \* the last call of comment_submission_action
    lastAdmin,                  \* the last administrative call on the Database
    autoBanned,                 \* bans written after a Forbidden: [subreddit, h, rowid]
    wiped                       \* names wiped by wipe_module and not registered again

storeVars == <<modules, storage, stats, userbans, subbans, update_threads, meta_stats,
               meta_push, meta_date>>
streamVars == <<pc, thing, ri, pulled, invoked, reacted, raised, errSeen, fatal>>
updVars == <<lock, upc, uri, threads, ti, tries, cbCount, lastCb, writeAt, selected>>
clockVars == <<now, ticks, hours>>
startVars == <<phase, loaded, exitStatus>>
apiVars == <<regPending, wipeStep>>
histVars == <<last, lastAdmin, autoBanned, wiped>>
vars == <<clockVars, storeVars, responders, catch_http_exception, streamVars, updVars,
          nextRid, admin, calls, cycles, recorded, recordedAdm, startVars, apiVars, histVars>>

\* ------------------------------------------------------------------- bags
EmptyBag == <<>>
BagAdd(b, r) == IF r \in DOMAIN b THEN [b EXCEPT ![r] = @ + 1]
                ELSE [x \in DOMAIN b \cup {r} |-> IF x = r THEN 1 ELSE b[x]]
BagKeep(b, Keep(_)) == [x \in {y \in DOMAIN b : Keep(y)} |-> b[x]]
RECURSIVE BagSize(_)
BagSize(b) == IF DOMAIN b = {} THEN 0
              ELSE LET x == CHOOSE y \in DOMAIN b : TRUE
                   IN b[x] + BagSize([y \in DOMAIN b \ {x} |-> b[y]])

\* --------------------------------------------------------- sqlite datetime
\* datetime(t, '+' || n || ' seconds'): a negative n gives the modifier '+-n seconds',
\* which sqlite rejects, and the result is NULL
DatetimePlus(t, n) == IF t = NullTime \/ n < 0 THEN NullTime ELSE t + n
\* a comparison with NULL is not true
TimeGt(a, b) == a # NullTime /\ b # NullTime /\ a > b
TimeLt(a, b) == a # NullTime /\ b # NullTime /\ a < b
TimeLe(a, b) == a # NullTime /\ b # NullTime /\ a <= b

\* ---------------------------------------------------------- table modules
\* (SELECT _ROWID_ FROM modules WHERE module_name = (?)): first match or NULL
RowidOf(mods, module) ==
    LET hit == {m.rowid : m \in {x \in mods : x.module_name = module}}
    IN IF hit = {} THEN NULL ELSE CHOOSE r \in hit : \A q \in hit : r <= q

\* (SELECT _ROWID_ FROM modules WHERE module_name IS NULL)
RowidOfNullName(mods) ==
    LET hit == {m.rowid : m \in {x \in mods : x.module_name = "NULL"}}
    IN IF hit = {} THEN NULL ELSE CHOOSE r \in hit : \A q \in hit : r <= q

\* _check_if_module_exists: "no" / "yes" / "ValueError"
_check_if_module_exists(mods, module) ==
    LET n == Cardinality({m \in mods : m.module_name = module})
    IN IF n = 0 THEN "no" ELSE IF n = 1 THEN "yes" ELSE "ValueError"

\* _error_if_not_exists: TRUE when it raises (LookupError, or the ValueError from above)
_error_if_not_exists(mods, module) == _check_if_module_exists(mods, module) # "yes"

\* the rowid sqlite gives a new row of a table without AUTOINCREMENT: largest + 1
NewRowid(mods) == IF mods = {} THEN 1
                  ELSE (CHOOSE r \in {m.rowid : m \in mods} : \A m \in mods : m.rowid <= r) + 1

register_module_always(mods, module) ==
    mods \cup {[rowid |-> NewRowid(mods), module_name |-> module]}
register_module_never(mods, module) == mods
register_module(mods, module) ==
    IF _check_if_module_exists(mods, module) = "yes" THEN mods
    ELSE mods \cup {[rowid |-> NewRowid(mods), module_name |-> module]}

\* ---------------------------------------------------------- table storage
insert_into_storage(stor, mods, thing_id, module, t) ==
    BagAdd(stor, [thing_id |-> thing_id, bot_module |-> RowidOf(mods, module), timestamp |-> t])

\* retrieve_thing: the set of matching rows (fetchone() is truthy iff non-empty);
\* bot_module = NULL matches nothing
retrieve_thing_bad(stor, mods, thing_id, module) == {}
retrieve_thing(stor, mods, thing_id, module) ==
    {r \in DOMAIN stor : r.thing_id = thing_id /\ RowidOf(mods, module) # NULL
                         /\ r.bot_module = RowidOf(mods, module)}

delete_from_storage(stor, min_timestamp) ==
    LET Keep(r) == ~TimeLe(r.timestamp, min_timestamp) IN BagKeep(stor, Keep)

\* ------------------------------------------------------------- ban tables
\* the two statements of check_user_ban / check_subreddit_ban:
\* handler-scoped rows first, then `bot_module = (rowid of the module named NULL)`;
\* the second result is `fetchone() is True`, and a row is never the object True
check_ban_any_module(bans, mods, subject, module) ==
    \E r \in DOMAIN bans : r.subject = subject
check_ban(bans, mods, subject, module) ==
    IF \E r \in DOMAIN bans : r.subject = subject /\ RowidOf(mods, module) # NULL
                              /\ r.bot_module = RowidOf(mods, module)
    THEN TRUE
    ELSE LET row == {r \in DOMAIN bans : r.subject = subject /\ RowidOfNullName(mods) # NULL
                                         /\ r.bot_module = RowidOfNullName(mods)}
         IN FALSE /\ row # {}

check_user_ban(bans, mods, username, module) == check_ban(bans, mods, username, module)
check_subreddit_ban(bans, mods, subreddit, module) == check_ban(bans, mods, subreddit, module)

add_ban_per_module(bans, mods, subject, module) ==
    BagAdd(bans, [subject |-> subject, bot_module |-> RowidOf(mods, module)])
add_ban_globally(bans, subject) ==
    BagAdd(bans, [subject |-> subject, bot_module |-> NULL])

\* remove_userban_per_module / remove_subreddit_ban_per_module: the subquery reads
\* `WHERE modules = (?)`; table modules has no column of that name, sqlite raises
\* OperationalError (no such column) and nothing is deleted
remove_ban_per_module(bans, mods, subject, module) == [err |-> TRUE, bans |-> bans]
remove_userban_per_module(bans, mods, username, module) ==
    remove_ban_per_module(bans, mods, username, module)
remove_subreddit_ban_per_module(bans, mods, subreddit, module) ==
    remove_ban_per_module(bans, mods, subreddit, module)

\* ------------------------------------------------------------ the filter
\* _filter_single_thing on a given store; idOk: responder.session.user.name can be read
\* (any exception, the LookupError of retrieve_thing included, gives False)
FilterOn(stor, ubans, sbans, mods, th, responder, idOk) ==
    IF _error_if_not_exists(mods, responder) THEN FALSE
    ELSE IF retrieve_thing(stor, mods, th.name, responder) # {} THEN FALSE
    ELSE IF th.author # NoAuthor /\ check_user_ban(ubans, mods, th.author, responder) THEN FALSE
    ELSE IF th.author # NoAuthor /\ ~idOk THEN FALSE
    ELSE IF th.author # NoAuthor /\ th.author = USERNAME[responder] /\ SELF_IGNORE[responder]
         THEN FALSE
    ELSE IF check_subreddit_ban(sbans, mods, th.subreddit, responder) THEN FALSE
    ELSE TRUE

_filter_single_thing(th, responder, idOk) ==
    FilterOn(storage, userbans, subbans, modules, th, responder, idOk)

\* what a caller of _filter_single_thing gets: True or False, never an exception
\* (`except Exception: return False`)
FilterOutcome(th, responder, idOk) ==
    IF _filter_single_thing(th, responder, idOk) THEN "True" ELSE "False"

\* ------------------------------------------------------- table meta_stats
DBs == {"comment", "submission", "update"}   \* database_cmt, database_subm, database_update
ZeroPush == [submissions |-> 0, comments |-> 0, cycles |-> 0]
DayOf(ts) == ts \div DaySecs

_add_submission_to_meta_noinsert(ms, count, ts) ==
    IF DayOf(ts) \notin DOMAIN ms THEN ms
    ELSE [ms EXCEPT ![DayOf(ts)].seen_submissions = @ + count]
_add_submission_to_meta(ms, count, ts) ==
    IF DayOf(ts) \notin DOMAIN ms
    THEN [d \in DOMAIN ms \cup {DayOf(ts)} |->
             IF d = DayOf(ts)
             THEN [seen_submissions |-> count, seen_comments |-> 0, update_cycles |-> 0]
             ELSE ms[d]]
    ELSE [ms EXCEPT ![DayOf(ts)].seen_submissions = @ + count]

\* the INSERT of _add_comment_to_meta is executed without its parameters
\* (they sit outside the call) and raises ProgrammingError
_add_comment_to_meta(ms, count, ts) ==
    IF DayOf(ts) \notin DOMAIN ms
    THEN [err |-> TRUE, ms |-> ms]
    ELSE [err |-> FALSE,
          ms |-> [ms EXCEPT ![DayOf(ts)].seen_comments = ms[DayOf(ts)].seen_submissions + count]]

_add_update_cycle_to_meta(ms, count, ts) ==
    IF DayOf(ts) \notin DOMAIN ms
    THEN [d \in DOMAIN ms \cup {DayOf(ts)} |->
             IF d = DayOf(ts)
             THEN [seen_submissions |-> 0, seen_comments |-> 0, update_cycles |-> count]
             ELSE ms[d]]
    ELSE [ms EXCEPT ![DayOf(ts)].update_cycles = @ + count]

\* _write_out_meta_push: submissions, comments, cycles in dict order, then the reset
_write_out_meta_push(ms, push, date) ==
    LET m1 == _add_submission_to_meta(ms, push.submissions, date * HourSecs)
        r2 == _add_comment_to_meta(m1, push.comments, date * HourSecs)
    IN IF r2.err THEN [err |-> TRUE, ms |-> m1, push |-> push]
       ELSE [err |-> FALSE,
             ms |-> _add_update_cycle_to_meta(r2.ms, push.cycles, date * HourSecs),
             push |-> ZeroPush]

write_out_meta_push(ms, push, date, t, force) ==
    LET full == force \/ push.submissions + push.comments + push.cycles >= MAX_CACHE
        r1 == IF full THEN _write_out_meta_push(ms, push, date)
              ELSE [err |-> FALSE, ms |-> ms, push |-> push]
        r2 == IF date # t \div HourSecs THEN _write_out_meta_push(r1.ms, r1.push, date)
              ELSE r1
    IN IF r1.err THEN [err |-> TRUE, ms |-> r1.ms, push |-> r1.push, date |-> date]
       ELSE IF r2.err THEN [err |-> TRUE, ms |-> r2.ms, push |-> r2.push, date |-> date]
       ELSE [err |-> FALSE, ms |-> r2.ms, push |-> r2.push, date |-> t \div HourSecs]

\* add_submission_to_meta / add_comment_to_meta / add_update_cycle_to_meta (count, force=False)
add_to_meta(ms, push, date, t, column, count) ==
    LET r == write_out_meta_push(ms, push, date, t, FALSE)
    IN IF r.err THEN r ELSE [r EXCEPT !.push[column] = @ + count]

\* ------------------------------------------------------------------- Init
NoCall == [outcome |-> "none", exc |-> "none", logged |-> FALSE, attempts |-> 0]
NoAdmin == [op |-> "none", name |-> "none", rowid |-> NULL]
NoWipe == [name |-> "none", step |-> 0, deleted |-> FALSE]

\* self.lock = self.multi_thread.get_lock(): one lock for the process, free when made
get_lock == FALSE

Init ==
    /\ now = 0 /\ ticks = 0 /\ hours = 0
    /\ catch_http_exception \in BOOLEAN
    \* load_responders: every plugin passed integrity_check and was registered in order
    /\ responders = Plugins
    /\ modules = {[rowid |-> i, module_name |-> Plugins[i]] : i \in 1..Len(Plugins)}
    /\ storage = EmptyBag /\ stats = EmptyBag
    /\ userbans = EmptyBag /\ subbans = EmptyBag
    /\ update_threads = {}
    /\ meta_stats = <<>>
    /\ meta_push = [d \in DBs |-> ZeroPush]
    /\ meta_date = [d \in DBs |-> 0]
    /\ pc = [s \in Streams |-> "pull"]
    /\ thing = [s \in Streams |-> NoThing]
    /\ ri = [s \in Streams |-> 1]
    /\ pulled = [s \in Streams |-> 0]
    /\ lock = get_lock /\ upc = "acquire" /\ uri = 1 /\ threads = <<>> /\ ti = 1 /\ tries = RetryTries
    /\ nextRid = 1 /\ admin = 0 /\ calls = 0 /\ cycles = 0
    /\ invoked = [s \in Streams |-> {}]
    /\ reacted = [s \in Streams |-> {}]
    /\ raised = [s \in Streams |-> {}]
    /\ errSeen = [s \in Streams |-> FALSE]
    /\ fatal = [s \in Streams |-> "none"]
    /\ recorded = {} /\ recordedAdm = {}
    /\ cbCount = <<>> /\ lastCb = <<>> /\ writeAt = NullTime
    /\ selected = {}
    /\ phase = "run" /\ loaded = [i \in 1..Len(Plugins) |-> "ok"] /\ exitStatus = 0
    /\ last = NoCall /\ lastAdmin = NoAdmin /\ autoBanned = {} /\ wiped = {}
    /\ regPending = "none" /\ wipeStep = NoWipe

\* the wall clock: a second passes
Tick ==
    /\ ticks < MaxTicks
    /\ now' = now + 1
    /\ ticks' = ticks + 1
    /\ UNCHANGED <<hours, storeVars, responders, catch_http_exception, streamVars, updVars,
                   nextRid, admin, calls, cycles, recorded, recordedAdm>>
    /\ UNCHANGED <<apiVars, startVars, histVars>>

\* the wall clock: the next full hour is reached
TickHour ==
    /\ hours < MaxHours
    /\ now' = (now \div HourSecs + 1) * HourSecs
    /\ hours' = hours + 1
    /\ UNCHANGED <<ticks, storeVars, responders, catch_http_exception, streamVars, updVars,
                   nextRid, admin, calls, cycles, recorded, recordedAdm>>
    /\ UNCHANGED <<apiVars, startVars, histVars>>

\* pairs whose DedupRecord is still in the store
StillStored(pairs, stor, mods) ==
    {p \in pairs : retrieve_thing(stor, mods, p[1], p[2]) # {}}

\* --------------------------------------------------------- stream threads
\* submission_thread / comment_thread: the next item of the stream (None is skipped)
Pull(s) ==
    /\ phase = "run"
    /\ pc[s] = "pull"
    /\ pulled["comment"] + pulled["submission"] < MaxItems
    /\ \E th \in StreamOf(s) : thing' = [thing EXCEPT ![s] = th]
    /\ pulled' = [pulled EXCEPT ![s] = @ + 1]
    /\ ri' = [ri EXCEPT ![s] = 1]
    /\ pc' = [pc EXCEPT ![s] = "dispatch"]
    /\ errSeen' = [errSeen EXCEPT ![s] = @ \/ raised[s] # {}]
    /\ invoked' = [invoked EXCEPT ![s] = {}]
    /\ reacted' = [reacted EXCEPT ![s] = {}]
    /\ raised' = [raised EXCEPT ![s] = {}]
    /\ UNCHANGED <<fatal, clockVars, calls, cycles, storeVars, responders, catch_http_exception, updVars,
                   nextRid, admin, recorded, recordedAdm>>
    /\ UNCHANGED <<apiVars, startVars, histVars>>

\* how often comment_submission_action calls the reaction entry point (its retry
\* decorator is commented out)
ReactionTries == 1

\* comment_submission_action: the store after it, the exception that leaves it
\* ("none", "PRAWException" or "Exception") and whether it wrote to the log
comment_submission_action_propagates(th, responder, outcome, t) ==
    [storage |-> storage, stats |-> stats, subbans |-> subbans,
     exc |-> IF outcome \in {"True", "False"} THEN "none" ELSE "PRAWException",
     logged |-> FALSE]
comment_submission_action_noban(th, responder, outcome, t) ==
    [storage |-> storage, stats |-> stats, subbans |-> subbans, exc |-> "none",
     logged |-> FALSE]
comment_submission_action_eager(th, responder, outcome, t) ==
    [storage |-> insert_into_storage(storage, modules, th.name, responder, t),
     stats |-> stats, subbans |-> subbans,
     exc |-> IF outcome \in {"True", "False"} THEN "none" ELSE "Exception",
     logged |-> FALSE]
comment_submission_action(th, responder, outcome, t) ==
    LET same == [storage |-> storage, stats |-> stats, subbans |-> subbans, exc |-> "none",
                 logged |-> outcome \in {"True", "Forbidden", "DELETED_LINK", "InvalidSubmission"}]
    IN CASE outcome = "True" ->
              LET st == insert_into_storage(storage, modules, th.name, responder, t)
              IN IF th.author = NoAuthor
                 \* building caredict reads thing.author.name: AttributeError
                 THEN [same EXCEPT !.storage = st, !.exc = "Exception"]
                 ELSE [same EXCEPT !.storage = st,
                          !.stats = BagAdd(stats, [id |-> th.name,
                                                   bot_module |-> RowidOf(modules, responder)])]
         [] outcome = "False" -> same
         [] outcome = "Forbidden" ->
              [same EXCEPT !.subbans = add_ban_per_module(subbans, modules, th.subreddit, responder)]
         [] outcome \in {"NotFound", "DELETED_LINK", "InvalidSubmission", "APIException"} -> same
         [] outcome = "ClientException" -> [same EXCEPT !.exc = "PRAWException"]
         [] OTHER -> [same EXCEPT !.exc = "Exception"]

\* one call comment_submission_action(thing, responder) seen from the store
ActionCall(th, h, outcome) ==
    /\ calls < MaxCalls
    /\ outcome = "Forbidden" => BagSize(subbans) < MaxBans
    /\ LET r == comment_submission_action(th, h, outcome, now)
       IN storage' = r.storage /\ stats' = r.stats /\ subbans' = r.subbans
    /\ LET new == IF outcome = "True" /\ RowidOf(modules, h) # NULL THEN {<<th.name, h>>} ELSE {}
       IN recorded' = recorded \cup new /\ recordedAdm' = recordedAdm \cup new
    /\ LET r == comment_submission_action(th, h, outcome, now)
       IN last' = [outcome |-> outcome, exc |-> r.exc,
                   logged |-> r.logged, attempts |-> ReactionTries]
    /\ autoBanned' = IF outcome = "Forbidden"
                     THEN autoBanned \cup {[subreddit |-> th.subreddit, h |-> h,
                                            rowid |-> RowidOf(modules, h)]}
                     ELSE autoBanned
    /\ calls' = calls + 1
    /\ UNCHANGED <<clockVars, cycles, modules, userbans, update_threads, meta_stats, meta_push,
                   meta_date, responders, catch_http_exception, streamVars, updVars, nextRid, admin>>
    /\ UNCHANGED <<apiVars, startVars, lastAdmin, wiped>>

\* what comment_submission_worker does with an exception of comment_submission_action:
\* TRUE when it is raised again and ends the thread
WorkerReraisesAll(exc) == exc # "none"
WorkerReraises(exc) == exc = "PRAWException" /\ ~catch_http_exception

\* a worker that takes the lock of the update thread around each responder
Dispatch_underlock(s) ==
    /\ ~lock
    /\ pc[s] = "dispatch"
    /\ \E outcome \in Outcomes :
         LET h == responders[ri[s]]
             r == comment_submission_action(thing[s], h, outcome, now)
         IN /\ outcome = "Forbidden" => BagSize(subbans) < MaxBans
            /\ storage' = r.storage /\ stats' = r.stats /\ subbans' = r.subbans
            /\ invoked' = [invoked EXCEPT ![s] = @ \cup {h}]
            /\ reacted' = [reacted EXCEPT ![s] = IF outcome = "True" THEN @ \cup {h} ELSE @]
            /\ raised' = [raised EXCEPT ![s] = IF outcome \in {"True", "False"} THEN @ ELSE @ \cup {h}]
            /\ LET new == IF outcome = "True" /\ RowidOf(modules, h) # NULL
                          THEN {<<thing[s].name, h>>} ELSE {}
               IN recorded' = recorded \cup new /\ recordedAdm' = recordedAdm \cup new
            \* the except clauses of comment_submission_worker log what they swallow
            /\ last' = [outcome |-> outcome, exc |-> r.exc,
                        logged |-> r.logged \/ (r.exc # "none" /\ ~WorkerReraises(r.exc)),
                        attempts |-> ReactionTries]
            /\ autoBanned' = IF outcome = "Forbidden"
                             THEN autoBanned \cup {[subreddit |-> thing[s].subreddit, h |-> h,
                                                    rowid |-> RowidOf(modules, h)]}
                             ELSE autoBanned
            /\ IF WorkerReraises(r.exc)
               THEN /\ pc' = [pc EXCEPT ![s] = "dead"] /\ ri' = ri
                    /\ fatal' = [fatal EXCEPT ![s] = outcome]
               ELSE /\ ri' = [ri EXCEPT ![s] = @ + 1]
                    /\ fatal' = fatal
                    /\ pc' = [pc EXCEPT ![s] = IF ri[s] + 1 > Len(responders) THEN "meta" ELSE "dispatch"]
    /\ UNCHANGED <<clockVars, calls, cycles, modules, userbans, update_threads, meta_stats, meta_push, meta_date,
                   responders, catch_http_exception, thing, pulled, errSeen, updVars, nextRid, admin>>
    /\ UNCHANGED <<apiVars, startVars, lastAdmin, wiped>>

\* comment_submission_worker: one pass of the loop over self.responders
\* (the call of _filter_single_thing is commented out in the source)
Dispatch(s) ==
    /\ pc[s] = "dispatch"
    /\ \E outcome \in Outcomes :
         LET h == responders[ri[s]]
             r == comment_submission_action(thing[s], h, outcome, now)
         IN /\ outcome = "Forbidden" => BagSize(subbans) < MaxBans
            /\ storage' = r.storage /\ stats' = r.stats /\ subbans' = r.subbans
            /\ invoked' = [invoked EXCEPT ![s] = @ \cup {h}]
            /\ reacted' = [reacted EXCEPT ![s] = IF outcome = "True" THEN @ \cup {h} ELSE @]
            /\ raised' = [raised EXCEPT ![s] = IF outcome \in {"True", "False"} THEN @ ELSE @ \cup {h}]
            /\ LET new == IF outcome = "True" /\ RowidOf(modules, h) # NULL
                          THEN {<<thing[s].name, h>>} ELSE {}
               IN recorded' = recorded \cup new /\ recordedAdm' = recordedAdm \cup new
            \* the except clauses of comment_submission_worker log what they swallow
            /\ last' = [outcome |-> outcome, exc |-> r.exc,
                        logged |-> r.logged \/ (r.exc # "none" /\ ~WorkerReraises(r.exc)),
                        attempts |-> ReactionTries]
            /\ autoBanned' = IF outcome = "Forbidden"
                             THEN autoBanned \cup {[subreddit |-> thing[s].subreddit, h |-> h,
                                                    rowid |-> RowidOf(modules, h)]}
                             ELSE autoBanned
            /\ IF WorkerReraises(r.exc)
               THEN /\ pc' = [pc EXCEPT ![s] = "dead"] /\ ri' = ri
                    /\ fatal' = [fatal EXCEPT ![s] = outcome]
               ELSE /\ ri' = [ri EXCEPT ![s] = @ + 1]
                    /\ fatal' = fatal
                    /\ pc' = [pc EXCEPT ![s] = IF ri[s] + 1 > Len(responders) THEN "meta" ELSE "dispatch"]
    /\ UNCHANGED <<clockVars, calls, cycles, modules, userbans, update_threads, meta_stats, meta_push, meta_date,
                   responders, catch_http_exception, thing, pulled, errSeen, updVars, nextRid, admin>>
    /\ UNCHANGED <<apiVars, startVars, lastAdmin, wiped>>

\* comment_submission_worker calls comment_submission_action in the stream's own thread:
\* a responder whose execute_* does not return keeps the thread inside the call
Hang(s) ==
    /\ pc[s] = "dispatch"
    /\ invoked' = [invoked EXCEPT ![s] = @ \cup {responders[ri[s]]}]
    /\ pc' = [pc EXCEPT ![s] = "blocked"]
    /\ UNCHANGED <<clockVars, calls, cycles, storeVars, responders, catch_http_exception, thing, ri,
                   pulled, reacted, raised, errSeen, fatal, updVars, nextRid, admin,
                   recorded, recordedAdm>>
    /\ UNCHANGED <<apiVars, startVars, histVars>>

\* comment_submission_action with its writes taking time: the reaction has returned True
\* and the thread enters insert_into_storage ("record"), or it has raised Forbidden and the
\* thread enters add_subreddit_ban_per_module ("ban")
ActionEnter(s) ==
    /\ pc[s] = "dispatch"
    /\ \E outcome \in {"True", "Forbidden"} :
         /\ outcome = "Forbidden" => BagSize(subbans) < MaxBans
         /\ pc' = [pc EXCEPT ![s] = IF outcome = "True" THEN "record" ELSE "ban"]
    /\ invoked' = [invoked EXCEPT ![s] = @ \cup {responders[ri[s]]}]
    /\ UNCHANGED <<clockVars, calls, cycles, storeVars, responders, catch_http_exception, thing, ri,
                   pulled, reacted, raised, errSeen, fatal, updVars, nextRid, admin,
                   recorded, recordedAdm>>
    /\ UNCHANGED <<apiVars, startVars, histVars>>

\* the Database object whose cursor the stream thread s is executing a statement on:
\* records of comments go through database_cmt, records of submissions and every ban
\* written after a Forbidden through database_subm
InUse(s) ==
    IF pc[s] = "record" THEN (IF s = "comment" THEN "database_cmt" ELSE "database_subm")
    ELSE IF pc[s] = "ban" THEN "database_subm"
    ELSE "none"

\* the writes are done and comment_submission_action returns to the worker
ActionLeave(s) ==
    /\ pc[s] \in {"record", "ban"}
    /\ LET outcome == IF pc[s] = "record" THEN "True" ELSE "Forbidden"
           h == responders[ri[s]]
           r == comment_submission_action(thing[s], h, outcome, now)
       IN /\ storage' = r.storage /\ stats' = r.stats /\ subbans' = r.subbans
          /\ reacted' = [reacted EXCEPT ![s] = IF outcome = "True" THEN @ \cup {h} ELSE @]
          /\ raised' = [raised EXCEPT ![s] = IF outcome = "True" THEN @ ELSE @ \cup {h}]
          /\ LET new == IF outcome = "True" /\ RowidOf(modules, h) # NULL
                        THEN {<<thing[s].name, h>>} ELSE {}
             IN recorded' = recorded \cup new /\ recordedAdm' = recordedAdm \cup new
          /\ last' = [outcome |-> outcome, exc |-> r.exc, logged |-> r.logged,
                      attempts |-> ReactionTries]
          /\ autoBanned' = IF outcome = "Forbidden"
                           THEN autoBanned \cup {[subreddit |-> thing[s].subreddit, h |-> h,
                                                  rowid |-> RowidOf(modules, h)]}
                           ELSE autoBanned
          /\ ri' = [ri EXCEPT ![s] = @ + 1]
          /\ pc' = [pc EXCEPT ![s] = IF ri[s] + 1 > Len(responders) THEN "meta" ELSE "dispatch"]
    /\ UNCHANGED <<clockVars, calls, cycles, modules, userbans, update_threads, meta_stats, meta_push,
                   meta_date, responders, catch_http_exception, thing, pulled, invoked, errSeen,
                   fatal, updVars, nextRid, admin>>
    /\ UNCHANGED <<apiVars, startVars, lastAdmin, wiped>>

\* self.database_subm.add_submission_to_meta(1) / self.database_cmt.add_comment_to_meta(1)
Meta(s) ==
    /\ pc[s] = "meta"
    /\ LET column == IF s = "comment" THEN "comments" ELSE "submissions"
           r == add_to_meta(meta_stats, meta_push[s], meta_date[s], now, column, 1)
       IN /\ meta_stats' = r.ms
          /\ meta_push' = [meta_push EXCEPT ![s] = r.push]
          /\ meta_date' = [meta_date EXCEPT ![s] = r.date]
          /\ pc' = [pc EXCEPT ![s] = IF r.err THEN "dead" ELSE "pull"]
          /\ fatal' = [fatal EXCEPT ![s] = IF r.err THEN "ProgrammingError" ELSE @]
    /\ UNCHANGED <<clockVars, calls, cycles, modules, storage, stats, userbans, subbans, update_threads,
                   responders, catch_http_exception, thing, ri, pulled, invoked, reacted, raised,
                   errSeen, updVars, nextRid, admin, recorded, recordedAdm>>
    /\ UNCHANGED <<apiVars, startVars, histVars>>

\* submission_thread / comment_thread, one whole pass of the loop for an item that no
\* responder reacts to (every execute_* returns False): the worker leaves the store as it
\* is, then the stream's counter call add_submission_to_meta(1) / add_comment_to_meta(1)
ForwardItem(s) ==
    /\ phase = "run"
    /\ pc[s] = "pull"
    /\ pulled["comment"] + pulled["submission"] < MaxItems
    /\ pulled' = [pulled EXCEPT ![s] = @ + 1]
    /\ LET column == IF s = "comment" THEN "comments" ELSE "submissions"
           r == add_to_meta(meta_stats, meta_push[s], meta_date[s], now, column, 1)
       IN /\ meta_stats' = r.ms
          /\ meta_push' = [meta_push EXCEPT ![s] = r.push]
          /\ meta_date' = [meta_date EXCEPT ![s] = r.date]
          /\ pc' = [pc EXCEPT ![s] = IF r.err THEN "dead" ELSE "pull"]
          /\ fatal' = [fatal EXCEPT ![s] = IF r.err THEN "ProgrammingError" ELSE @]
    /\ UNCHANGED <<clockVars, calls, cycles, modules, storage, stats, userbans, subbans, update_threads,
                   responders, catch_http_exception, thing, ri, invoked, reacted, raised,
                   errSeen, updVars, nextRid, admin, recorded, recordedAdm>>
    /\ UNCHANGED <<apiVars, startVars, histVars>>

\* ------------------------------------------- administrative Database calls
AdminRegister(b) ==
    /\ admin < MaxAdmin
    /\ _check_if_module_exists(modules, b) # "ValueError"
    /\ _check_if_module_exists(modules, b) = "no" => NewRowid(modules) <= MaxRowid
    /\ modules' = register_module(modules, b)
    /\ lastAdmin' = [op |-> "register_module", name |-> b, rowid |-> RowidOf(modules, b)]
    /\ admin' = admin + 1
    /\ UNCHANGED <<clockVars, calls, cycles, storage, stats, userbans, subbans, update_threads, meta_stats,
                   meta_push, meta_date, responders, catch_http_exception, streamVars, updVars,
                   nextRid, recorded, recordedAdm>>
    /\ wiped' = wiped \ {b}
    /\ UNCHANGED <<apiVars, startVars, last, autoBanned>>

\* wipe_module: storage and update_threads rows of the module, then its registry row
\* (userbans, subbans, stats and messages are not touched)
wipe_storage(stor, mods, module) ==
    LET Keep(r) == ~(RowidOf(mods, module) # NULL /\ r.bot_module = RowidOf(mods, module))
    IN BagKeep(stor, Keep)
wipe_update_threads(upd, mods, module) ==
    {r \in upd : ~(RowidOf(mods, module) # NULL /\ r.bot_module = RowidOf(mods, module))}

AdminWipe(b) ==
    /\ admin < MaxAdmin
    /\ storage' = wipe_storage(storage, modules, b)
    /\ update_threads' = wipe_update_threads(update_threads, modules, b)
    /\ modules' = {m \in modules : m.module_name # b}
    /\ lastAdmin' = [op |-> "wipe_module", name |-> b, rowid |-> RowidOf(modules, b)]
    /\ admin' = admin + 1
    /\ recordedAdm' = StillStored(recordedAdm, storage', modules)
    /\ UNCHANGED <<clockVars, calls, cycles, stats, userbans, subbans, meta_stats, meta_push, meta_date,
                   responders, catch_http_exception, streamVars, updVars, nextRid, recorded>>
    /\ wiped' = wiped \cup {b}
    /\ UNCHANGED <<apiVars, startVars, last, autoBanned>>

\* wipe_module statement by statement: each execute() is its own transaction on the
\* autocommit connection (isolation_level=None), so the other threads run in between
\* first statement: DELETE FROM storage WHERE bot_module = (rowid of the module)
WipeStorage(b) ==
    /\ wipeStep = NoWipe
    /\ admin < MaxAdmin
    /\ storage' = wipe_storage(storage, modules, b)
    /\ wipeStep' = [name |-> b, step |-> 1, deleted |-> storage' # storage]
    /\ admin' = admin + 1
    /\ recordedAdm' = StillStored(recordedAdm, storage', modules)
    /\ UNCHANGED <<clockVars, calls, cycles, modules, stats, userbans, subbans, update_threads,
                   meta_stats, meta_push, meta_date, responders, catch_http_exception,
                   streamVars, updVars, nextRid, recorded, startVars, regPending, histVars>>

\* second statement: DELETE FROM update_threads WHERE bot_module = (rowid of the module)
WipeUpdateThreads ==
    /\ wipeStep.step = 1
    /\ update_threads' = wipe_update_threads(update_threads, modules, wipeStep.name)
    /\ wipeStep' = [wipeStep EXCEPT !.step = 2,
                                    !.deleted = @ \/ update_threads' # update_threads]
    /\ UNCHANGED <<clockVars, calls, cycles, modules, storage, stats, userbans, subbans,
                   meta_stats, meta_push, meta_date, responders, catch_http_exception,
                   streamVars, updVars, nextRid, admin, recorded, recordedAdm, startVars,
                   regPending, histVars>>

\* third statement: DELETE FROM modules WHERE module_name = (?)
WipeModules ==
    /\ wipeStep.step = 2
    /\ modules' = {m \in modules : m.module_name # wipeStep.name}
    /\ lastAdmin' = [op |-> "wipe_module", name |-> wipeStep.name,
                     rowid |-> RowidOf(modules, wipeStep.name)]
    /\ wiped' = wiped \cup {wipeStep.name}
    /\ wipeStep' = NoWipe
    /\ UNCHANGED <<clockVars, calls, cycles, storage, stats, userbans, subbans, update_threads,
                   meta_stats, meta_push, meta_date, responders, catch_http_exception,
                   streamVars, updVars, nextRid, admin, recorded, recordedAdm, startVars,
                   regPending, last, autoBanned>>

\* add_userban_per_module / add_userban_globally
AdminBanUser(u, scope) ==
    /\ admin < MaxAdmin
    /\ BagSize(userbans) < MaxBans
    /\ userbans' = IF scope = "global" THEN add_ban_globally(userbans, u)
                   ELSE add_ban_per_module(userbans, modules, u, scope)
    /\ lastAdmin' = [op |-> "add_userban", name |-> scope, rowid |-> NULL]
    /\ admin' = admin + 1
    /\ UNCHANGED <<clockVars, calls, cycles, modules, storage, stats, subbans, update_threads, meta_stats,
                   meta_push, meta_date, responders, catch_http_exception, streamVars, updVars,
                   nextRid, recorded, recordedAdm>>
    /\ UNCHANGED <<apiVars, startVars, last, autoBanned, wiped>>

\* add_subreddit_ban_per_module / add_subreddit_ban_globally
AdminBanSub(sr, scope) ==
    /\ admin < MaxAdmin
    /\ BagSize(subbans) < MaxBans
    /\ subbans' = IF scope = "global" THEN add_ban_globally(subbans, sr)
                  ELSE add_ban_per_module(subbans, modules, sr, scope)
    /\ lastAdmin' = [op |-> "add_subreddit_ban", name |-> scope, rowid |-> NULL]
    /\ admin' = admin + 1
    /\ UNCHANGED <<clockVars, calls, cycles, modules, storage, stats, userbans, update_threads, meta_stats,
                   meta_push, meta_date, responders, catch_http_exception, streamVars, updVars,
                   nextRid, recorded, recordedAdm>>
    /\ UNCHANGED <<apiVars, startVars, last, autoBanned, wiped>>

\* remove_userban_per_module(username, module)
AdminUnbanUser(u, b) ==
    /\ admin < MaxAdmin
    /\ userbans' = remove_userban_per_module(userbans, modules, u, b).bans
    /\ lastAdmin' = [op |-> "remove_userban", name |-> b, rowid |-> NULL]
    /\ admin' = admin + 1
    /\ UNCHANGED <<clockVars, calls, cycles, modules, storage, stats, subbans, update_threads, meta_stats,
                   meta_push, meta_date, responders, catch_http_exception, streamVars, updVars,
                   nextRid, recorded, recordedAdm>>
    /\ UNCHANGED <<apiVars, startVars, last, autoBanned, wiped>>

\* remove_subreddit_ban_per_module(subreddit, module)
AdminUnbanSub(sr, b) ==
    /\ admin < MaxAdmin
    /\ subbans' = remove_subreddit_ban_per_module(subbans, modules, sr, b).bans
    /\ lastAdmin' = [op |-> "remove_subreddit_ban", name |-> b, rowid |-> NULL]
    /\ admin' = admin + 1
    /\ UNCHANGED <<clockVars, calls, cycles, modules, storage, stats, userbans, update_threads, meta_stats,
                   meta_push, meta_date, responders, catch_http_exception, streamVars, updVars,
                   nextRid, recorded, recordedAdm>>
    /\ UNCHANGED <<apiVars, startVars, last, autoBanned, wiped>>

\* delete_from_storage(min_timestamp), called with a time that has been reached
AdminDeleteFromStorage(ts) ==
    /\ admin < MaxAdmin
    /\ storage' = delete_from_storage(storage, ts)
    /\ lastAdmin' = [op |-> "delete_from_storage", name |-> "none", rowid |-> NULL]
    /\ admin' = admin + 1
    /\ recorded' = StillStored(recorded, storage', modules)
    /\ recordedAdm' = StillStored(recordedAdm, storage', modules)
    /\ UNCHANGED <<clockVars, calls, cycles, modules, stats, userbans, subbans, update_threads, meta_stats,
                   meta_push, meta_date, responders, catch_http_exception, streamVars, updVars,
                   nextRid>>
    /\ UNCHANGED <<apiVars, startVars, last, autoBanned, wiped>>

\* --------------------------------------------------- table update_threads
TaskThings == {"t1_r1", "t1_r2"}     \* fullname of the reply a plugin wants to keep updated
Deferring == {"A", "B"}              \* the plugins that call to_update

insert_into_update(upd, mods, rid, thing_id, module, lifetime, interval, t) ==
    upd \cup {[rid |-> rid, thing_id |-> thing_id, bot_module |-> RowidOf(mods, module),
               created |-> t, lifetime |-> DatetimePlus(t, lifetime),
               last_updated |-> t, interval |-> interval]}

\* the WHERE clause of _select_to_update
IsDue(r, mods, module, t) ==
    /\ \E m \in mods : m.rowid = r.bot_module /\ m.module_name = module
    /\ TimeGt(t, DatetimePlus(r.last_updated, r.interval))

\* get_all_to_update: the due rows, ORDER BY last_updated ASC (ties in any order)
get_all_to_update(upd, mods, module, t) ==
    LET due == {r \in upd : IsDue(r, mods, module, t)}
        n == Cardinality(due)
    IN {sq \in [1..n -> due] :
          /\ \A i, j \in 1..n : i # j => sq[i] # sq[j]
          /\ \A i, j \in 1..n : i < j => sq[i].last_updated <= sq[j].last_updated}

update_timestamp_skipped(upd, mods, thing_id, module, t) == upd
\* mutant of update_timestamp_in_update: writes the epoch instead of CURRENT_TIMESTAMP
update_timestamp_epoch(upd, mods, thing_id, module, t) ==
    {IF r.thing_id = thing_id /\ r.bot_module = RowidOf(mods, module)
     THEN [r EXCEPT !.last_updated = 0] ELSE r : r \in upd}
update_timestamp_in_update(upd, mods, thing_id, module, t) ==
    {IF r.thing_id = thing_id /\ RowidOf(mods, module) # NULL
        /\ r.bot_module = RowidOf(mods, module)
     THEN [r EXCEPT !.last_updated = t] ELSE r : r \in upd}

clean_up_storage(stor, older_than_unixtime) ==
    LET Keep(r) == ~(r.timestamp < older_than_unixtime) IN BagKeep(stor, Keep)
\* mutant of clean_up_update_threads: the DELETE without its WHERE clause
clean_up_update_threads_all(upd, t) == {}
clean_up_update_threads(upd, t) == {r \in upd : ~TimeGt(t, r.lifetime)}

\* delete_from_update: the rows of one thing and module that outlived their lifetime
delete_from_update(upd, mods, thing_id, module, t) ==
    {r \in upd : ~(/\ r.thing_id = thing_id
                   /\ RowidOf(mods, module) # NULL
                   /\ r.bot_module = RowidOf(mods, module)
                   /\ TimeGt(t, r.lifetime))}

\* PluginBase.to_update -> Database.insert_into_update (LookupError when not registered)
ToUpdate(h, thing_id, lifetime, interval) ==
    /\ nextRid <= MaxTasks
    /\ ~_error_if_not_exists(modules, h)
    /\ update_threads' = insert_into_update(update_threads, modules, nextRid, thing_id, h,
                                            lifetime, interval, now)
    /\ nextRid' = nextRid + 1
    /\ UNCHANGED <<clockVars, calls, cycles, modules, storage, stats, userbans, subbans, meta_stats, meta_push,
                   meta_date, responders, catch_http_exception, streamVars, updVars, admin,
                   recorded, recordedAdm>>
    /\ UNCHANGED <<apiVars, startVars, histVars>>

\* ------------------------------------------------------------ update thread
\* mutant of NextResponder: the for loop left after the first responder
NextResponder_first ==
    /\ uri' = uri + 1
    /\ upc' = "cleanup"

\* the update thread moves on to the next responder, or to the maintenance part
NextResponder ==
    /\ uri' = uri + 1
    /\ upc' = IF uri + 1 > Len(responders) THEN "cleanup" ELSE "select"

\* the except clauses of update_thread: "dead" when the exception is raised again
UpdateThreadReraises(exc) == exc = "PRAWException" /\ ~catch_http_exception

\* an update thread that enters the body of a tick without taking the lock
UAcquire_nolock ==
    /\ phase = "run"
    /\ upc = "acquire"
    /\ cycles < MaxCycles
    /\ ~lock
    /\ lock' = lock
    /\ cycles' = cycles + 1
    /\ uri' = 1
    /\ upc' = IF Len(responders) = 0 THEN "cleanup" ELSE "select"
    /\ UNCHANGED <<clockVars, calls, storeVars, responders, catch_http_exception, streamVars,
                   threads, ti, tries, cbCount, lastCb, writeAt, selected, nextRid, admin,
                   recorded, recordedAdm>>
    /\ UNCHANGED <<apiVars, startVars, histVars>>

\* while True: self.lock.acquire(True)
UAcquire ==
    /\ phase = "run"
    /\ upc = "acquire"
    /\ cycles < MaxCycles
    /\ ~lock
    /\ lock' = TRUE
    /\ cycles' = cycles + 1
    /\ uri' = 1
    /\ upc' = IF Len(responders) = 0 THEN "cleanup" ELSE "select"
    /\ UNCHANGED <<clockVars, calls, storeVars, responders, catch_http_exception, streamVars,
                   threads, ti, tries, cbCount, lastCb, writeAt, selected, nextRid, admin,
                   recorded, recordedAdm>>
    /\ UNCHANGED <<apiVars, startVars, histVars>>

\* threads = self.database_update.get_all_to_update(responder.BOT_NAME)
\* (outside the try: a LookupError ends the thread with the lock held)
USelect ==
    /\ upc = "select"
    /\ LET h == responders[uri]
       IN IF _error_if_not_exists(modules, h)
          THEN upc' = "dead" /\ UNCHANGED <<threads, ti, tries, selected>>
          ELSE \E sq \in get_all_to_update(update_threads, modules, h, now) :
                  /\ threads' = sq
                  /\ ti' = 1
                  /\ tries' = RetryTries
                  /\ selected' = selected \cup {sq[i].rid : i \in 1..Len(sq)}
                  /\ upc' = IF Len(sq) = 0 THEN "messages" ELSE "update_action"
    /\ UNCHANGED <<clockVars, calls, cycles, storeVars, responders, catch_http_exception, streamVars,
                   lock, uri, cbCount, lastCb, writeAt, nextRid, admin,
                   recorded, recordedAdm>>
    /\ UNCHANGED <<apiVars, startVars, histVars>>

\* update_action, first statement: update_timestamp_in_update(thread[0], responder.BOT_NAME)
UUpdateAction ==
    /\ upc = "update_action"
    /\ LET h == responders[uri]
           th == threads[ti]
       IN IF _error_if_not_exists(modules, h)
          \* LookupError: not retried, logged by `except Exception`
          THEN /\ NextResponder
               /\ UNCHANGED <<update_threads, writeAt>>
          ELSE /\ update_threads' = update_timestamp_in_update(update_threads, modules,
                                                               th.thing_id, h, now)
               /\ writeAt' = now
               /\ upc' = "callback"
               /\ uri' = uri
    /\ UNCHANGED <<clockVars, calls, cycles, modules, storage, stats, userbans, subbans, meta_stats, meta_push,
                   meta_date, responders, catch_http_exception, streamVars, lock, threads, ti,
                   tries, cbCount, lastCb, selected, nextRid, admin,
                   recorded, recordedAdm>>
    /\ UNCHANGED <<apiVars, startVars, histVars>>

\* the retry decorator around update_action: TRUE when the call is made again
RetryAgain(exc, left) == exc = "APIException" /\ left > 1

\* update_action, second statement: responder.update_procedure(thing=get_info(...), ...)
\* called: get_info returned and update_procedure was entered
UCallback ==
    /\ upc = "callback"
    /\ \E o \in UpdOutcomes, called \in BOOLEAN :
         LET th == threads[ti]
             exc == IF o = "ok" THEN "none"
                    ELSE IF o \in {"APIException", "ClientException"} THEN "PRAWException"
                    ELSE "Exception"
         IN /\ o = "ok" => called
            /\ cbCount' = IF called
                          THEN [r \in DOMAIN cbCount \cup {th.rid} |->
                                   IF r = th.rid
                                   THEN (IF r \in DOMAIN cbCount THEN cbCount[r] ELSE 0) + 1
                                   ELSE cbCount[r]]
                          ELSE cbCount
            /\ lastCb' = IF called
                         THEN [rid |-> th.rid, at |-> now, lifetime |-> th.lifetime,
                               due |-> th.rid \in selected]
                         ELSE lastCb
            /\ IF o = "ok"
               THEN /\ ti' = ti + 1
                    /\ tries' = RetryTries
                    /\ upc' = IF ti + 1 > Len(threads) THEN "messages" ELSE "update_action"
                    /\ uri' = uri
               ELSE IF RetryAgain(o, tries)
               THEN /\ tries' = tries - 1
                    /\ upc' = "update_action"
                    /\ UNCHANGED <<ti, uri>>
               ELSE IF UpdateThreadReraises(exc)
               THEN upc' = "dead" /\ UNCHANGED <<ti, tries, uri>>
               ELSE NextResponder /\ UNCHANGED <<ti, tries>>
    /\ UNCHANGED <<clockVars, calls, cycles, storeVars, responders, catch_http_exception, streamVars, lock,
                   threads, writeAt, selected, nextRid, admin, recorded, recordedAdm>>
    /\ UNCHANGED <<apiVars, startVars, histVars>>

\* responder.get_unread_messages(self.mark_as_read), inside the same try
UMessages ==
    /\ upc = "messages"
    /\ \E o \in UpdOutcomes :
         LET exc == IF o = "ok" THEN "none"
                    ELSE IF o \in {"APIException", "ClientException"} THEN "PRAWException"
                    ELSE "Exception"
         IN IF UpdateThreadReraises(exc)
            THEN upc' = "dead" /\ uri' = uri
            ELSE NextResponder
    /\ UNCHANGED <<clockVars, calls, cycles, storeVars, responders, catch_http_exception, streamVars, lock,
                   threads, ti, tries, cbCount, lastCb, writeAt, selected,
                   nextRid, admin, recorded, recordedAdm>>
    /\ UNCHANGED <<apiVars, startVars, histVars>>

\* clean_up_database(int(time()) - int(self.delete_after)); add_update_cycle_to_meta(1);
\* self.lock.release(); sleep
UCleanup ==
    /\ upc = "cleanup"
    /\ storage' = clean_up_storage(storage, now - DeleteAfter)
    /\ update_threads' = clean_up_update_threads(update_threads, now)
    /\ LET r == add_to_meta(meta_stats, meta_push["update"], meta_date["update"], now, "cycles", 1)
       IN /\ meta_stats' = r.ms
          /\ meta_push' = [meta_push EXCEPT !["update"] = r.push]
          /\ meta_date' = [meta_date EXCEPT !["update"] = r.date]
          /\ IF r.err THEN upc' = "dead" /\ lock' = lock
             ELSE upc' = "acquire" /\ lock' = FALSE
    /\ threads' = <<>> /\ ti' = 1
    /\ cbCount' = <<>> /\ lastCb' = <<>> /\ writeAt' = NullTime /\ selected' = {}
    /\ recorded' = StillStored(recorded, storage', modules)
    /\ recordedAdm' = StillStored(recordedAdm, storage', modules)
    /\ UNCHANGED <<clockVars, calls, cycles, modules, stats, userbans, subbans, responders,
                   catch_http_exception, streamVars, uri, tries, nextRid, admin>>
    /\ UNCHANGED <<apiVars, startVars, histVars>>

\* clean_up_database(older_than_unixtime), called as the update thread calls it
AdminCleanUp ==
    /\ admin < MaxAdmin
    /\ storage' = clean_up_storage(storage, now - DeleteAfter)
    /\ update_threads' = clean_up_update_threads(update_threads, now)
    /\ lastAdmin' = [op |-> "clean_up_database", name |-> "none", rowid |-> NULL]
    /\ admin' = admin + 1
    /\ recorded' = StillStored(recorded, storage', modules)
    /\ recordedAdm' = StillStored(recordedAdm, storage', modules)
    /\ UNCHANGED <<clockVars, calls, cycles, modules, stats, userbans, subbans, meta_stats, meta_push,
                   meta_date, responders, catch_http_exception, streamVars, updVars, nextRid>>
    /\ UNCHANGED <<apiVars, startVars, last, autoBanned, wiped>>

\* delete_from_update(thing_id, module) (LookupError when not registered)
AdminDeleteFromUpdate(thing_id, h) ==
    /\ admin < MaxAdmin
    /\ ~_error_if_not_exists(modules, h)
    /\ update_threads' = delete_from_update(update_threads, modules, thing_id, h, now)
    /\ lastAdmin' = [op |-> "delete_from_update", name |-> h, rowid |-> RowidOf(modules, h)]
    /\ admin' = admin + 1
    /\ UNCHANGED <<clockVars, calls, cycles, modules, storage, stats, userbans, subbans, meta_stats,
                   meta_push, meta_date, responders, catch_http_exception, streamVars, updVars,
                   nextRid, recorded, recordedAdm>>
    /\ UNCHANGED <<apiVars, startVars, last, autoBanned, wiped>>

\* ------------------------------------------------- RedditRover.__init__
\* the registries an earlier run can have left in the sqlite file
OldRegistries ==
    {{[rowid |-> i, module_name |-> Plugins[i]] : i \in S} : S \in SUBSET (1..Len(Plugins))}
\* the plugin modules found by pkgutil.iter_modules, by BOT_NAME
Candidates == Plugins
\* what happens to a candidate in load_responders: it passes; it is no PluginBase;
\* integrity_check fails; register_module fails; module.init raises (outside the try)
LoadOutcomes == {"ok", "ImportError", "AssertionError", "RegisterError", "InitError"}

InitStartup ==
    /\ now = 0 /\ ticks = 0 /\ hours = 0
    /\ catch_http_exception \in BOOLEAN
    /\ responders = <<>>
    /\ modules \in OldRegistries
    /\ storage = EmptyBag /\ stats = EmptyBag
    /\ userbans = EmptyBag /\ subbans = EmptyBag
    /\ update_threads = {}
    /\ meta_stats = <<>>
    /\ meta_push = [d \in DBs |-> ZeroPush]
    /\ meta_date = [d \in DBs |-> 0]
    /\ pc = [s \in Streams |-> "pull"]
    /\ thing = [s \in Streams |-> NoThing]
    /\ ri = [s \in Streams |-> 1]
    /\ pulled = [s \in Streams |-> 0]
    /\ lock = get_lock /\ upc = "acquire" /\ uri = 1 /\ threads = <<>> /\ ti = 1 /\ tries = RetryTries
    /\ nextRid = 1 /\ admin = 0 /\ calls = 0 /\ cycles = 0
    /\ invoked = [s \in Streams |-> {}]
    /\ reacted = [s \in Streams |-> {}]
    /\ raised = [s \in Streams |-> {}]
    /\ errSeen = [s \in Streams |-> FALSE]
    /\ fatal = [s \in Streams |-> "none"]
    /\ recorded = {} /\ recordedAdm = {}
    /\ cbCount = <<>> /\ lastCb = <<>> /\ writeAt = NullTime
    /\ selected = {}
    /\ phase = "load" /\ loaded = <<>> /\ exitStatus = 0
    /\ last = NoCall /\ lastAdmin = NoAdmin /\ autoBanned = {} /\ wiped = {}
    /\ regPending = "none" /\ wipeStep = NoWipe

\* the try block of load_responders ran through: the candidate is appended
LoadPassesAll(o) == TRUE
LoadPasses(o) == o = "ok"

\* load_responders: one pass of the loop over the plugin modules
LoadCandidate ==
    /\ phase = "load"
    /\ Len(loaded) < Len(Candidates)
    /\ \E o \in LoadOutcomes :
         LET c == Candidates[Len(loaded) + 1]
         IN /\ loaded' = Append(loaded, o)
            /\ modules' = IF o = "ok" THEN register_module(modules, c) ELSE modules
            /\ responders' = IF LoadPasses(o) THEN Append(responders, c) ELSE responders
            \* an exception of module.init leaves load_responders: __init__ logs it, exit(-1)
            /\ IF o = "InitError"
               THEN phase' = "exit" /\ exitStatus' = -1
               ELSE UNCHANGED <<phase, exitStatus>>
            /\ wiped' = IF o = "ok" THEN wiped \ {c} ELSE wiped
    /\ UNCHANGED <<clockVars, storage, stats, userbans, subbans, update_threads, meta_stats,
                   meta_push, meta_date, catch_http_exception, streamVars, updVars, nextRid,
                   admin, calls, cycles, recorded, recordedAdm, last, lastAdmin, autoBanned, apiVars>>

\* the end of load_responders (sys.exit(0) without responders), the praw.Reddit session
\* of the poller (exit(-1) when it cannot be made), then multi_thread.go
LoadDone ==
    /\ phase = "load"
    /\ Len(loaded) = Len(Candidates)
    /\ IF Len(responders) = 0
       THEN phase' = "exit" /\ exitStatus' = 0 /\ loaded' = loaded
       ELSE \E pollerOk \in BOOLEAN :
               IF pollerOk
               THEN phase' = "run" /\ UNCHANGED <<exitStatus, loaded>>
               ELSE phase' = "exit" /\ exitStatus' = -1
                    /\ loaded' = Append(loaded, "PollerError")
    /\ UNCHANGED <<clockVars, storeVars, responders, catch_http_exception, streamVars, updVars,
                   nextRid, admin, calls, cycles, recorded, recordedAdm, histVars, apiVars>>

\* ------------------------------- register_module from a second process
\* register_module is two statements on an autocommit connection (SELECT COUNT(*), then
\* INSERT); a second process on the same storage.db (a second bot, the usage examples at
\* the end of database.py) can be between the two while load_responders registers.
\* RegisterCheck: the COUNT said 0 (with 1 the call returns, with more it raises)
RegisterCheck(b) ==
    /\ regPending = "none"
    /\ admin < MaxAdmin
    /\ _check_if_module_exists(modules, b) = "no"
    /\ regPending' = b
    /\ admin' = admin + 1
    /\ UNCHANGED <<clockVars, storeVars, responders, catch_http_exception, streamVars, updVars,
                   nextRid, calls, cycles, recorded, recordedAdm, startVars, wipeStep, histVars>>

\* RegisterInsert: INSERT INTO modules VALUES (?)
RegisterInsert ==
    /\ regPending # "none"
    /\ NewRowid(modules) <= MaxRowid
    /\ modules' = modules \cup {[rowid |-> NewRowid(modules), module_name |-> regPending]}
    /\ lastAdmin' = [op |-> "register_module", name |-> regPending, rowid |-> NULL]
    /\ wiped' = wiped \ {regPending}
    /\ regPending' = "none"
    /\ UNCHANGED <<clockVars, storage, stats, userbans, subbans, update_threads, meta_stats,
                   meta_push, meta_date, responders, catch_http_exception, streamVars, updVars,
                   nextRid, admin, calls, cycles, recorded, recordedAdm, startVars, wipeStep,
                   last, autoBanned>>

\* ---------------------------------------------------------- specifications
\* ingestion and dispatch: the two stream threads
Next ==
    \/ TickHour
    \/ \E s \in Streams : Pull(s)
    \/ \E s \in Streams : Dispatch(s)
    \/ \E s \in Streams : Meta(s)

Spec == Init /\ [][Next]_vars

\* the store under dispatch, retention clean up and the administrative surface
NextStore ==
    \/ TickHour
    \/ \E th \in Things, h \in BotNames, o \in Outcomes : ActionCall(th, h, o)
    \/ \E b \in BotNames : AdminRegister(b)
    \/ \E b \in BotNames : AdminWipe(b)
    \/ \E u \in Users, scope \in BotNames \cup {"global"} : AdminBanUser(u, scope)
    \/ \E sr \in Subreddits, scope \in BotNames \cup {"global"} : AdminBanSub(sr, scope)
    \/ \E ts \in {r.timestamp : r \in DOMAIN storage} : AdminDeleteFromStorage(ts)
    \/ AdminCleanUp

SpecStore == Init /\ [][NextStore]_vars

\* the update thread with plugins that ask for deferred updates (the streams are idle)
NextUpdate ==
    \/ Tick
    \/ \E h \in Deferring, x \in TaskThings, l \in Lifetimes, d \in Intervals : ToUpdate(h, x, l, d)
    \/ UAcquire
    \/ USelect
    \/ UUpdateAction
    \/ UCallback
    \/ UMessages
    \/ UCleanup

SpecUpdate == Init /\ [][NextUpdate]_vars

\* start of the process: load_responders, then each thread up to its first call on a
\* responder (the first item in hand, the first selection of due tasks)
NextStartup ==
    \/ LoadCandidate
    \/ LoadDone
    \/ \E b \in BotNames : AdminWipe(b)
    \/ \E s \in Streams : Pull(s)
    \/ UAcquire
    \/ USelect

SpecStartup == InitStartup /\ [][NextStartup]_vars

\* the stream threads and the update thread side by side: each stream up to the end of
\* the dispatch of its first item, the update thread without deferred tasks
NextConcurrent ==
    \/ \E s \in Streams : Pull(s)
    \/ \E s \in Streams : Dispatch(s)
    \/ UAcquire
    \/ USelect
    \/ UMessages
    \/ UCleanup

SpecConcurrent == Init /\ [][NextConcurrent]_vars

\* the registry under load_responders and a second process registering, then the first
\* use of the registry by the update thread
NextRegistry ==
    \/ LoadCandidate
    \/ LoadDone
    \/ \E b \in BotNames : RegisterCheck(b)
    \/ RegisterInsert
    \/ UAcquire
    \/ USelect

SpecRegistry == InitStartup /\ [][NextRegistry]_vars

\* deferred tasks made with any lifetime, and the clean up that removes expired ones
NextDefer ==
    \/ Tick
    \/ \E h \in Deferring, x \in TaskThings, l \in AnyLifetimes, d \in Intervals : ToUpdate(h, x, l, d)
    \/ AdminCleanUp

SpecDefer == Init /\ [][NextDefer]_vars

\* the counters of table meta_stats: items that pass without a reaction, the update
\* thread counting its cycles, the hour changing
NextMeta ==
    \/ Tick
    \/ TickHour
    \/ \E s \in Streams : ForwardItem(s)
    \/ UAcquire
    \/ USelect
    \/ UMessages
    \/ UCleanup

SpecMeta == Init /\ [][NextMeta]_vars

\* the ban tables under the calls that add and remove bans
NextBans ==
    \/ \E b \in BotNames : AdminRegister(b)
    \/ \E b \in BotNames : AdminWipe(b)
    \/ \E u \in Users, scope \in BotNames \cup {"global"} : AdminBanUser(u, scope)
    \/ \E sr \in Subreddits, scope \in BotNames \cup {"global"} : AdminBanSub(sr, scope)
    \/ \E u \in Users, b \in BotNames : AdminUnbanUser(u, b)
    \/ \E sr \in Subreddits, b \in BotNames : AdminUnbanSub(sr, b)

SpecBans == Init /\ [][NextBans]_vars

\* wipe_module running next to the threads that write records and deferred tasks
\* (tasks of one lifetime and interval: neither matters to wipe_module)
NextWipe ==
    \/ \E th \in Things, h \in BotNames, o \in Outcomes : ActionCall(th, h, o)
    \/ \E h \in Deferring, x \in TaskThings : ToUpdate(h, x, 1, 0)
    \/ \E b \in BotNames : WipeStorage(b)
    \/ WipeUpdateThreads
    \/ WipeModules

SpecWipe == Init /\ [][NextWipe]_vars

\* records, bans and deferred tasks under the two calls that remove deferred tasks
\* (reactions that write a record; tasks of one interval: it does not matter to
\* either call)
NextCompact ==
    \/ Tick
    \/ \E th \in Things : ActionCall(th, "A", "True")
    \/ \E u \in Users, scope \in {"A", "global"} : AdminBanUser(u, scope)
    \/ \E x \in TaskThings, l \in Lifetimes : ToUpdate("A", x, l, 1)
    \/ \E x \in TaskThings : AdminDeleteFromUpdate(x, "A")
    \/ AdminCleanUp

SpecCompact == Init /\ [][NextCompact]_vars

\* the stream threads with a responder that may not return; each thread that can take a
\* step is scheduled eventually
NextSlow ==
    \/ \E s \in Streams : Pull(s)
    \/ \E s \in Streams : Dispatch(s)
    \/ \E s \in Streams : Hang(s)
    \/ \E s \in Streams : Meta(s)

SpecSlow ==
    /\ Init /\ [][NextSlow]_vars
    /\ \A s \in Streams : WF_vars(Pull(s)) /\ WF_vars(Dispatch(s)) /\ WF_vars(Meta(s))

\* the registry over time: a plugin is wiped and a plugin with a new name is registered,
\* next to reactions that write records, stats rows and bans
LaterNames == {"D"}     \* a plugin added after the others
NextIdentity ==
    \/ \E th \in Things, h \in BotNames, o \in Outcomes : ActionCall(th, h, o)
    \/ \E b \in BotNames : AdminWipe(b)
    \/ \E b \in BotNames \cup LaterNames : AdminRegister(b)

SpecIdentity == Init /\ [][NextIdentity]_vars

\* the update thread tick after tick, without deferred tasks, while plugins are wiped;
\* the thread is scheduled whenever it can take a step
NextTicks ==
    \/ \E b \in BotNames : AdminWipe(b)
    \/ UAcquire
    \/ USelect
    \/ UMessages
    \/ UCleanup

SpecTicks ==
    /\ Init /\ [][NextTicks]_vars
    /\ WF_vars(UAcquire) /\ WF_vars(USelect) /\ WF_vars(UMessages) /\ WF_vars(UCleanup)

\* the two stream threads with the writes of comment_submission_action taking time
NextShared ==
    \/ \E s \in Streams : Pull(s)
    \/ \E s \in Streams : Dispatch(s)
    \/ \E s \in Streams : ActionEnter(s)
    \/ \E s \in Streams : ActionLeave(s)
    \/ \E s \in Streams : Meta(s)

SpecShared == Init /\ [][NextShared]_vars

\* ------------------------------------------------------------------ claims
Registered(h) == _check_if_module_exists(modules, h) = "yes"
ThingNamed(name) == CHOOSE th \in Things : th.name = name

\* C1 as stated: once the Dispatcher has recorded that handler H reacted to item I,
\* _filter_single_thing(I, H) is false until retention clean up removes the record
\* (recorded: the pairs recorded and not yet removed by clean_up_database or
\* delete_from_storage).
C1_FalseUntilRetention ==
    \A p \in recorded : \A idOk \in BOOLEAN :
        ~_filter_single_thing(ThingNamed(p[1]), p[2], idOk)

\* C1 amended: once the Dispatcher has recorded that the registered handler H reacted to
\* item I, _filter_single_thing(I, H) is false until the record is removed, by retention
\* clean up or by wipe_module(H).
C1_FalseWhileRecorded ==
    \A p \in recordedAdm : \A idOk \in BOOLEAN :
        ~_filter_single_thing(ThingNamed(p[1]), p[2], idOk)

\* a recorded pair whose DedupRecord is the only reason for the filter to say no
C1_Witness ==
    \E p \in recordedAdm :
        /\ Registered(p[2])
        /\ retrieve_thing(storage, modules, p[1], p[2]) # {}
        /\ FilterOn(EmptyBag, userbans, subbans, modules, ThingNamed(p[1]), p[2], TRUE)

\* C2: the store holds at most one DedupRecord and at most one stats row for each
\* (item identifier, handler) pair, also when the same item is dispatched again.
C2_OneRecordPerPair ==
    /\ \A r \in DOMAIN storage :
          /\ storage[r] = 1
          /\ \A q \in DOMAIN storage :
                (q.thing_id = r.thing_id /\ q.bot_module = r.bot_module) => q = r
    /\ \A r \in DOMAIN stats : stats[r] = 1

\* C3: once a global ban of a subject exists (a row with no owning handler), the ban
\* lookup reports the subject as banned for every registered handler, and the filter
\* rejects every item of that subject for every registered handler.
GlobalBan(bans, subject) == \E r \in DOMAIN bans : r.subject = subject /\ r.bot_module = NULL
C3_GlobalBanAppliesToAll ==
    \A h \in BotNames : Registered(h) =>
        /\ \A u \in Users : GlobalBan(userbans, u) =>
              /\ check_user_ban(userbans, modules, u, h)
              /\ \A th \in Things, idOk \in BOOLEAN :
                    th.author = u => ~_filter_single_thing(th, h, idOk)
        /\ \A sr \in Subreddits : GlobalBan(subbans, sr) =>
              /\ check_subreddit_ban(subbans, modules, sr, h)
              /\ \A th \in Things, idOk \in BOOLEAN :
                    th.subreddit = sr => ~_filter_single_thing(th, h, idOk)

\* C4: a handler-scoped ban (S, H) makes the filter reject every item from S for H, and
\* for every other registered handler H2 the filter answers as it would without the bans
\* of H (the scoped rows are looked up first, the global rows second).
ScopedBan(bans, subject, h) ==
    \E r \in DOMAIN bans : r.subject = subject /\ r.bot_module = RowidOf(modules, h)
WithoutBansOf(bans, h) ==
    LET Keep(r) == r.bot_module # RowidOf(modules, h) IN BagKeep(bans, Keep)
C4_ScopedBanOnlyForItsHandler ==
    \A h \in BotNames : Registered(h) =>
        \A th \in Things, idOk \in BOOLEAN :
            /\ (th.author # NoAuthor /\ ScopedBan(userbans, th.author, h))
                  => ~_filter_single_thing(th, h, idOk)
            /\ ScopedBan(subbans, th.subreddit, h) => ~_filter_single_thing(th, h, idOk)
            /\ \A h2 \in BotNames \ {h} : Registered(h2) =>
                  _filter_single_thing(th, h2, idOk)
                     = FilterOn(storage, WithoutBansOf(userbans, h), WithoutBansOf(subbans, h),
                                modules, th, h2, idOk)

\* a subject banned for one handler while another handler still gets its items
C4_Witness ==
    \E h \in BotNames, h2 \in BotNames, th \in Things :
        /\ h # h2 /\ Registered(h) /\ Registered(h2)
        /\ th.author # NoAuthor /\ ScopedBan(userbans, th.author, h)
        /\ _filter_single_thing(th, h2, TRUE)
        /\ ~_filter_single_thing(th, h, TRUE)

\* C5 as stated: whatever error a handler raises for an item, under either setting of
\* catch_http_exception, the thread lives on, every responder is invoked for the item and
\* every 'reacted' outcome is in storage.
AllResponders == {responders[i] : i \in 1..Len(responders)}
HasRecord(th, h) ==
    \E r \in DOMAIN storage : r.thing_id = th.name /\ r.bot_module = RowidOf(modules, h)
C7_FiresIffDue ==
    (upc \in {"select", "cleanup"} /\ uri > 1) =>
        /\ \A i \in 1..Len(threads) : i # ti => threads[i].rid \in DOMAIN cbCount
        /\ \A rid \in DOMAIN cbCount : rid \in selected
        /\ \A i \in 1..Len(threads) : i < ti =>
              \A r \in update_threads : r.rid = threads[i].rid =>
                  (r.last_updated # threads[i].last_updated /\ r.last_updated <= now)

\* C8: the update callback of a task created at t0 with lifetime L is never invoked at a
\* time now > t0 + L, also not in the tick that finds the task both due and expired.
C8_NeverFiresAfterExpiry ==
    lastCb # <<>> => ~TimeGt(lastCb.at, lastCb.lifetime)

\* C9: within one scheduler tick the update callback of a task is invoked at most once,
\* also when update_action fails and the retry wrapper runs it again.
C9_AtMostOncePerTick ==
    \A rid \in DOMAIN cbCount : cbCount[rid] <= 1

\* C10: whenever the update callback of a task is about to be invoked, the row of the task
\* already carries the time of this firing as last_updated, and no longer the value the
\* task was selected with.
C10_TimestampBeforeCallback ==
    upc = "callback" =>
        /\ writeAt # NullTime
        /\ \A r \in update_threads : r.rid = threads[ti].rid =>
              /\ r.last_updated = writeAt
              /\ r.last_updated # threads[ti].last_updated

\* a due task of a registered handler right before its callback
C10_Witness ==
    /\ upc = "callback"
    /\ \E r \in update_threads :
          /\ r.rid = threads[ti].rid
          /\ r.last_updated = now
          /\ TimeGt(now, DatetimePlus(threads[ti].last_updated, threads[ti].interval))

\* C11: register_module is idempotent: from a registry with at most one row for a name,
\* one call leaves exactly one row for the name, a second call changes nothing and raises
\* no error; and after every register_module call made the name has exactly one row.
RowsOf(mods, name) == {m \in mods : m.module_name = name}
C11_RegisterIdempotent ==
    /\ \A b \in BotNames :
          Cardinality(RowsOf(modules, b)) <= 1 =>
              LET once == register_module(modules, b)
                  twice == register_module(once, b)
              IN /\ _check_if_module_exists(modules, b) # "ValueError"
                 /\ Cardinality(RowsOf(once, b)) = 1
                 /\ _check_if_module_exists(once, b) = "yes"
                 /\ twice = once
    /\ lastAdmin.op = "register_module" =>
          /\ Cardinality(RowsOf(modules, lastAdmin.name)) = 1
          /\ lastAdmin.rowid # NULL => RowidOf(modules, lastAdmin.name) = lastAdmin.rowid

\* register_module was called for a name that was registered already
C11_Witness ==
    /\ lastAdmin.op = "register_module"
    /\ lastAdmin.rowid # NULL
    /\ Cardinality(RowsOf(modules, lastAdmin.name)) = 1

\* C12: after wipe_module(name) no DedupRecord, DeferredTask, user ban or subreddit ban
\* refers to the wiped handler (rows refer to a handler by the rowid of its registry row).
C12_WipeCascades ==
    (lastAdmin.op = "wipe_module" /\ lastAdmin.rowid # NULL) =>
        /\ \A r \in DOMAIN storage : r.bot_module # lastAdmin.rowid
        /\ \A r \in update_threads : r.bot_module # lastAdmin.rowid
        /\ \A r \in DOMAIN userbans : r.bot_module # lastAdmin.rowid
        /\ \A r \in DOMAIN subbans : r.bot_module # lastAdmin.rowid

\* C13: the DedupRecord and the stats row of a 'reacted' outcome are written together or
\* not at all: whenever comment_submission_action has returned or raised, an (item,
\* handler) pair has a storage row if and only if it has a stats row.
HasStats(th, h) ==
    \E r \in DOMAIN stats : r.id = th.name /\ r.bot_module = RowidOf(modules, h)
C13_RecordAndStatsTogether ==
    \A th \in Things, h \in BotNames : HasRecord(th, h) <=> HasStats(th, h)

\* C14 as stated: after a reaction of H to an item from subreddit R raised Forbidden,
\* the filter rejects every item from R for the registered handler H in every later state.
C14_ForbiddenBansForever ==
    \A p \in autoBanned : Registered(p.h) =>
        \A th \in Things, idOk \in BOOLEAN :
            th.subreddit = p.subreddit => ~_filter_single_thing(th, p.h, idOk)

\* C14 amended: a Forbidden raised by the reaction of the registered handler H to an item
\* from R makes comment_submission_action write the ban row (R, H), write no DedupRecord
\* or stats row and raise nothing; the ban row stays, and the filter rejects every item
\* from R for H for as long as H keeps the registry row it had then.
C14_ForbiddenBansWhileRegistered ==
    /\ \A th \in Things, h \in BotNames : Registered(h) =>
          LET r == comment_submission_action(th, h, "Forbidden", now)
          IN /\ r.storage = storage /\ r.stats = stats /\ r.exc = "none"
             /\ \E b \in DOMAIN r.subbans :
                   b.subject = th.subreddit /\ b.bot_module = RowidOf(modules, h)
    /\ \A p \in autoBanned : p.rowid # NULL =>
          /\ \E b \in DOMAIN subbans : b.subject = p.subreddit /\ b.bot_module = p.rowid
          /\ RowidOf(modules, p.h) = p.rowid =>
                \A th \in Things, idOk \in BOOLEAN :
                    th.subreddit = p.subreddit => ~_filter_single_thing(th, p.h, idOk)

\* a handler banned after a Forbidden, the ban being the only reason to reject the item
C14_Witness ==
    \E p \in autoBanned, th \in Things :
        /\ RowidOf(modules, p.h) = p.rowid /\ p.rowid # NULL
        /\ th.subreddit = p.subreddit
        /\ last.outcome = "Forbidden" /\ last.exc = "none"
        /\ ~_filter_single_thing(th, p.h, TRUE)
        /\ FilterOn(storage, userbans, EmptyBag, modules, th, p.h, TRUE)

\* C15: a reaction that fails because its target no longer exists (NotFound,
\* InvalidSubmission, APIException DELETED_LINK) counts as no-match:
\* comment_submission_action writes no DedupRecord, stats row or ban, raises nothing, and
\* the worker goes on with the next responder (no stream thread ever ends on it).
DeletedOutcomes == {"NotFound", "InvalidSubmission", "DELETED_LINK"}
C15_DeletedTargetIsNoMatch ==
    /\ \A th \in Things, h \in BotNames, o \in DeletedOutcomes :
          LET r == comment_submission_action(th, h, o, now)
          IN /\ r.storage = storage /\ r.stats = stats /\ r.subbans = subbans
             /\ r.exc = "none" /\ ~WorkerReraises(r.exc)
    /\ last.outcome \in DeletedOutcomes => last.exc = "none"
    /\ \A s \in Streams : fatal[s] \notin DeletedOutcomes

\* the first responder hit a deleted target, nothing was written, the second is next
C15_Witness ==
    /\ last.outcome \in DeletedOutcomes
    /\ \E s \in Streams :
          /\ pc[s] = "dispatch" /\ ri[s] = 2 /\ raised[s] = {responders[1]}
          /\ storage = EmptyBag /\ stats = EmptyBag /\ subbans = EmptyBag

\* C16: an APIException that is no deleted-resource error, raised by a reaction, is
\* retried (the reaction is attempted more than once) or, at the latest when the retries
\* are used up, written to the log; it is never dropped without a retry and without a
\* log entry.
C16_TransientRetriedOrLogged ==
    last.outcome = "APIException" => (last.attempts > 1 \/ last.logged)

\* C17: a candidate whose integrity_check or registration fails is not in responders,
\* every candidate that passes is, and such a failure does not end the start: the process
\* exits only without any responder, or after an error outside the candidates' checks
\* (module.init raising, the poller's session failing).
Active == {responders[i] : i \in 1..Len(responders)}
Seen == 1..(IF Len(loaded) < Len(Candidates) THEN Len(loaded) ELSE Len(Candidates))
StartupBroken == \E i \in 1..Len(loaded) : loaded[i] \in {"InitError", "PollerError"}
C17_FailingCandidateExcluded ==
    /\ \A i \in Seen : loaded[i] = "ok" <=> Candidates[i] \in Active
    /\ Active \subseteq {Candidates[i] : i \in Seen}
    /\ Len(responders) = Cardinality(Active)
    /\ phase = "exit" => (Len(responders) = 0 \/ StartupBroken)
    /\ (phase # "load" /\ ~StartupBroken /\ \E i \in Seen : loaded[i] = "ok") => phase = "run"

\* two candidates failed their checks, the third one passed and the threads were started
C17_Witness ==
    /\ phase = "run"
    /\ loaded = <<"AssertionError", "RegisterError", "ok">>
    /\ responders = <<"C">>

LoopsStarted == (\E s \in Streams : pulled[s] > 0 \/ pc[s] # "pull") \/ cycles > 0 \/ lock
C19_ActiveAlwaysRegistered ==
    /\ LoopsStarted => phase = "run"
    /\ phase = "run" => \A h \in Active : Cardinality(RowsOf(modules, h)) = 1

\* C19 as it holds: the loops start only after load_responders, a name never has two
\* registry rows, and an active handler has its row from its registration on, in the
\* loops too, until wipe_module is called for it.
C19_ActiveRegisteredUnlessWiped ==
    /\ LoopsStarted => phase = "run"
    /\ \A h \in Active : /\ Cardinality(RowsOf(modules, h)) <= 1
                         /\ h \notin wiped => Cardinality(RowsOf(modules, h)) = 1

\* A was not in the registry of the earlier run, was registered at rowid 4 by
\* load_responders, and a stream has pulled an item with every active handler registered
C19_Witness ==
    /\ phase = "run"
    /\ \E s \in Streams : pulled[s] > 0
    /\ "A" \in Active
    /\ RowidOf(modules, "A") = 4
    /\ \A h \in Active : Cardinality(RowsOf(modules, h)) = 1

\* C20: the whole body of a tick of the update thread (select the due tasks, fire the
\* callbacks, read the messages, clean up, count the cycle) runs with the one lock held,
\* and a body is entered from a free lock only, so no two bodies and no clean up and
\* another body are in progress at the same time.
TickBody == {"select", "update_action", "callback", "messages", "cleanup"}
C20_TickBodyHoldsLock ==
    /\ upc \in TickBody => lock
    /\ upc = "acquire" => ~lock

\* the second tick's body is at a callback, with the lock taken again after its release
C20_Witness ==
    /\ upc = "callback"
    /\ lock
    /\ cycles = 2

\* C21: the stream threads never take or wait for the lock of the update thread: in every
\* state where the lock is held (a tick in progress, or held for good by an update thread
\* that died), a stream thread that has an item in hand can dispatch it to its next
\* responder, and one that waits for an item can pull it.
C21_StreamsRunWhileLocked ==
    lock => \A s \in Streams :
                /\ pc[s] = "dispatch" => ENABLED Dispatch(s)
                /\ (pc[s] = "pull" /\ pulled["comment"] + pulled["submission"] < MaxItems)
                       => ENABLED Pull(s)

\* the update thread is inside its second tick, a stream is between two responders and
\* the first responder's reaction was recorded
C21_Witness ==
    /\ lock /\ upc = "messages" /\ cycles = 2
    /\ \E s \in Streams : pc[s] = "dispatch" /\ ri[s] = 2 /\ reacted[s] = {"A"}
                           /\ HasRecord(thing[s], "A")

\* C22: when the update callback of one due task raises during a tick, every other task
\* selected as due for that handler has its callback invoked before the update thread
\* leaves the handler, the other handlers are served as well, and (with
\* catch_http_exception on) the update thread lives on to the next tick.
C22_OtherDueTasksStillFire ==
    /\ catch_http_exception => upc # "dead"
    /\ (upc \in {"select", "cleanup"} /\ uri > 1) =>
           \A i \in 1..Len(threads) : i # ti => threads[i].rid \in DOMAIN cbCount

\* C23: when a handler name resolves to more than one registry row, the store operation
\* that detects it raises (_check_if_module_exists: ValueError), so do the operations
\* that call it (insert_into_update for a deferred task, _select_to_update for the due
\* tasks), and so does the dispatch filter: it does not answer True or False.
Corrupted(h) == Cardinality(RowsOf(modules, h)) > 1
C23_CorruptionPropagates ==
    \A h \in BotNames : Corrupted(h) =>
        /\ _check_if_module_exists(modules, h) = "ValueError"
        /\ _error_if_not_exists(modules, h)
        /\ \A th \in Things, idOk \in BOOLEAN : FilterOutcome(th, h, idOk) \notin {"True", "False"}

\* the update thread met the name registered twice and ended with the ValueError
C23_Witness ==
    /\ upc = "dead"
    /\ uri <= Len(responders)
    /\ Corrupted(responders[uri])

\* C24: _filter_single_thing(item, handler) is false when the item's author is the
\* handler's own account and the handler has SELF_IGNORE set, and it is true for every
\* item and registered handler for which there is no DedupRecord, no ban (of the author or
\* of the subreddit, for the handler or global) and no self-authorship with SELF_IGNORE;
\* items without an author included.
SelfIgnored(th, h) == th.author # NoAuthor /\ th.author = USERNAME[h] /\ SELF_IGNORE[h]
AnyBan(th, h) ==
    \/ th.author # NoAuthor /\ (ScopedBan(userbans, th.author, h) \/ GlobalBan(userbans, th.author))
    \/ ScopedBan(subbans, th.subreddit, h) \/ GlobalBan(subbans, th.subreddit)
C24_FilterTrueUnlessExcluded ==
    \A h \in BotNames : Registered(h) =>
        \A th \in Things, idOk \in BOOLEAN :
            /\ SelfIgnored(th, h) => ~_filter_single_thing(th, h, idOk)
            /\ (~HasRecord(th, h) /\ ~AnyBan(th, h) /\ ~SelfIgnored(th, h))
                  => _filter_single_thing(th, h, idOk)

\* C25: every row of update_threads has lifetime (its expiry) > created, whatever lifetime
\* argument to_update / insert_into_update was called with: zero, negative, or the moment
\* in unix time of the to_update docstring.
C25_ExpiryAfterCreation ==
    \A r \in update_threads : TimeGt(r.lifetime, r.created)

\* C26: for each stream, the 'seen' counter stored for the day plus the count still in
\* the cache of the stream's Database object equals the number of items of that stream
\* forwarded that day (all times of the model lie in day 0), and the counter call never
\* raises.
StoredCount(column) == IF 0 \in DOMAIN meta_stats THEN meta_stats[0][column] ELSE 0
C26_CountersCountItems ==
    /\ StoredCount("seen_comments") + meta_push["comment"].comments = pulled["comment"]
    /\ StoredCount("seen_submissions") + meta_push["submission"].submissions = pulled["submission"]
    /\ \A s \in Streams : fatal[s] # "ProgrammingError"

\* C27: for every subject S banned for a registered handler H, the call that removes the
\* ban of S for H completes without error and leaves check_user_ban / check_subreddit_ban
\* for (S, H) false, with every ban row of another handler and every global row as before.
OtherBans(bans, subject, h) ==
    LET Keep(r) == ~(r.subject = subject /\ r.bot_module = RowidOf(modules, h))
    IN BagKeep(bans, Keep)
C27_UnbanRoundTrip ==
    \A h \in BotNames : Registered(h) =>
        /\ \A u \in Users : ScopedBan(userbans, u, h) =>
              LET r == remove_userban_per_module(userbans, modules, u, h)
              IN /\ ~r.err
                 /\ ~check_user_ban(r.bans, modules, u, h)
                 /\ OtherBans(r.bans, u, h) = OtherBans(userbans, u, h)
        /\ \A sr \in Subreddits : ScopedBan(subbans, sr, h) =>
              LET r == remove_subreddit_ban_per_module(subbans, modules, sr, h)
              IN /\ ~r.err
                 /\ ~check_subreddit_ban(r.bans, modules, sr, h)
                 /\ OtherBans(r.bans, sr, h) = OtherBans(subbans, sr, h)

\* alice was banned for a handler, remove_userban_per_module was called for that handler
\* and the ban row is still there
C27_Witness ==
    /\ lastAdmin.op = "remove_userban"
    /\ Registered(lastAdmin.name)
    /\ ScopedBan(userbans, "alice", lastAdmin.name)
    /\ check_user_ban(userbans, modules, "alice", lastAdmin.name)

\* C28: wipe_module is atomic for the other threads: there is no state in which a stream
\* thread or a plugin can take a step (record a reaction, create a deferred task) while
\* rows of the handler have already been deleted from storage or update_threads and the
\* handler's registry row still exists.
OtherThreadStep ==
    \/ \E th \in Things, h \in BotNames, o \in Outcomes : ActionCall(th, h, o)
    \/ \E h \in Deferring, x \in TaskThings : ToUpdate(h, x, 1, 0)
C28_WipeIsAtomic ==
    ~ /\ wipeStep.step \in {1, 2}
      /\ wipeStep.deleted
      /\ RowsOf(modules, wipeStep.name) # {}
      /\ ENABLED OtherThreadStep

\* what the interleaving leaves behind: A was wiped, its registry row is gone, and a
\* record written for A between the statements is still in storage under A's old rowid
C28_Witness ==
    /\ wipeStep = NoWipe
    /\ lastAdmin = [op |-> "wipe_module", name |-> "A", rowid |-> 1]
    /\ RowsOf(modules, "A") = {}
    /\ \E r \in DOMAIN storage : r.bot_module = 1

\* C29: comment_submission_worker visits the responders in the order of self.responders,
\* calls the reaction entry point of a responder for which _filter_single_thing is true
\* once, and calls none for a responder for which it is false.
\* FilterWasFalse: the filter was false when h was called for the current item, whatever
\* else holds: the item is h's own with SELF_IGNORE, or a DedupRecord for (item, h) is in
\* storage that h's reaction in this dispatch did not write.
FilterWasFalse(s, h) ==
    \/ SelfIgnored(thing[s], h)
    \/ HasRecord(thing[s], h) /\ h \notin reacted[s]
C29_InOrderOnlyIfFilterTrue ==
    \A s \in Streams :
        /\ pc[s] \in {"dispatch", "meta"} =>
               invoked[s] = {responders[i] : i \in 1..(ri[s] - 1)}
        /\ \A h \in invoked[s] : ~FilterWasFalse(s, h)

\* the comment came a second time: A had reacted to it and is recorded, and A's
\* reaction entry point was called again (this time without a reaction)
C29_Witness ==
    /\ pulled["comment"] = 2
    /\ "A" \in invoked["comment"]
    /\ "A" \notin reacted["comment"]
    /\ HasRecord(thing["comment"], "A")

\* C30: a row enters storage or stats only in the step in which the worker called a
\* responder for the item in hand and the reaction returned True, and the row is the one
\* of that item and responder; a call that ends in no match or in an error leaves
\* storage, stats and update_threads as they were.
Gained(after, before) ==
    {r \in DOMAIN after : r \notin DOMAIN before \/ after[r] > before[r]}
Called(s) == pc[s] = "dispatch" /\ (ri'[s] # ri[s] \/ pc'[s] = "dead")
C30_RecordOnlyOnReacted ==
    [][ /\ \A r \in Gained(storage', storage) :
              \E s \in Streams : /\ Called(s)
                                  /\ last'.outcome = "True"
                                  /\ responders[ri[s]] \in reacted'[s]
                                  /\ r.thing_id = thing[s].name
                                  /\ r.bot_module = RowidOf(modules, responders[ri[s]])
        /\ \A r \in Gained(stats', stats) :
              \E s \in Streams : /\ Called(s)
                                  /\ last'.outcome = "True"
                                  /\ r.id = thing[s].name
                                  /\ r.bot_module = RowidOf(modules, responders[ri[s]])
        /\ \A s \in Streams : (Called(s) /\ last'.outcome # "True") =>
              /\ storage' = storage
              /\ stats' = stats
              /\ update_threads' = update_threads
      ]_vars

\* A reacted to the comment and has its record and stats row; B was called, found no
\* match and has neither
C30_Witness ==
    /\ invoked["comment"] = {"A", "B"}
    /\ reacted["comment"] = {"A"}
    /\ raised["comment"] = {}
    /\ HasRecord(thing["comment"], "A") /\ HasStats(thing["comment"], "A")
    /\ ~HasRecord(thing["comment"], "B") /\ ~HasStats(thing["comment"], "B")

\* C31: clean_up_database(now - delete_after) removes exactly the storage rows whose
\* timestamp is older than the threshold and the update_threads rows whose lifetime has
\* passed (now > lifetime); it keeps every other row of both tables and leaves modules,
\* userbans and subbans as they were. No step of any kind removes a deferred task while
\* now <= lifetime.
CleanUpStep == lastAdmin'.op = "clean_up_database" /\ admin' # admin
C31_CompactRemovesExactlyTheExpired ==
    [][ /\ CleanUpStep =>
             /\ DOMAIN storage' = {r \in DOMAIN storage : r.timestamp >= now - DeleteAfter}
             /\ \A r \in DOMAIN storage' : storage'[r] = storage[r]
             /\ update_threads' = {r \in update_threads : r.lifetime >= now}
             /\ modules' = modules /\ userbans' = userbans /\ subbans' = subbans
        /\ \A r \in update_threads :
             (\A q \in update_threads' : q.rid # r.rid) => now > r.lifetime
      ]_vars

\* after a clean up: a record was removed (its stats row is still there) and a younger one
\* kept, a task was removed and an unexpired one kept, and a ban is in the store
C31_Witness ==
    /\ lastAdmin.op = "clean_up_database"
    /\ BagSize(storage) = 1 /\ BagSize(stats) = 2
    /\ Cardinality(update_threads) = 1 /\ nextRid = MaxTasks + 1
    /\ \A r \in update_threads : r.lifetime >= now
    /\ BagSize(userbans) = 1

\* C32: last_updated of a deferred task never decreases: the row is inserted with
\* last_updated equal to created, and the only step that changes it is the timestamp write
\* of update_action for a task of that thing and responder, which sets it to the current
\* time, not earlier than the value it replaces.
TimestampWrite == upc = "update_action" /\ upc' = "callback"
C32_LastUpdatedMonotonic ==
    [][ /\ \A r \in update_threads, q \in update_threads' :
             r.rid = q.rid =>
                /\ q.last_updated >= r.last_updated
                /\ q.last_updated # r.last_updated =>
                      /\ TimestampWrite
                      /\ q.last_updated = now
                      /\ q.thing_id = threads[ti].thing_id
                      /\ q.bot_module = RowidOf(modules, responders[uri])
        /\ \A q \in update_threads' :
             (\A r \in update_threads : r.rid # q.rid) => q.last_updated = q.created
      ]_vars

\* a task made at time 0 was fired later: its last_updated has moved past created
C32_Witness ==
    /\ upc = "callback"
    /\ \E r \in update_threads : r.rid = threads[ti].rid /\ r.created = 0 /\ r.last_updated > 0

\* C33: every row of update_threads has interval > 0: to_update with interval <= 0 creates
\* no task.
C33_IntervalPositive == \A r \in update_threads : r.interval > 0

\* a task with interval 0 was stored and the update thread selected it as due
C33_Witness == \E r \in update_threads : r.interval = 0 /\ r.rid \in selected

\* C34 (as claimed): every tick that has ended, in whatever way, was counted and cleaned up
\* once: the cycle counter equals the number of ticks started whenever no tick is running.
CyclesCounted == meta_push["update"].cycles + StoredCount("update_cycles")
C35_SlowHandlerDoesNotStall ==
    \A s \in Streams : (pc[s] = "blocked") ~> (pc[s] = "pull")

\* the comment thread is inside the call of A for its first item; B and C have not been
\* called for that item
C35_Witness ==
    /\ pc["comment"] = "blocked"
    /\ pulled["comment"] = 1
    /\ invoked["comment"] = {"A"}

\* C36: a row written for one plugin is never attributed to a plugin of another name: the
\* rowid under which a ban was written after a Forbidden of h resolves to no other name,
\* and every stats row that resolves to a name was written by a reaction of that name.
C36_IdentityNotTransferred ==
    /\ \A p \in autoBanned : p.rowid # NULL =>
          \A b \in (BotNames \cup LaterNames) \ {p.h} : RowidOf(modules, b) # p.rowid
    /\ \A r \in DOMAIN stats : \A b \in BotNames \cup LaterNames :
          (r.bot_module # NULL /\ r.bot_module = RowidOf(modules, b)) => <<r.id, b>> \in recorded

\* C was banned from pics after a Forbidden, was wiped, and D was registered: D has the
\* rowid C had and check_subreddit_ban answers True for D
C36_Witness ==
    /\ \E p \in autoBanned : p.h = "C" /\ p.rowid = RowidOf(modules, "D")
    /\ ~Registered("C") /\ Registered("D")
    /\ check_subreddit_ban(subbans, modules, "pics", "D")

\* C37: whatever happens inside a tick, the update thread releases the lock and gets back
\* to the top of its loop: again and again it is between two ticks with the lock free.
C37_LockAlwaysReleased == []<>(upc = "acquire" /\ ~lock)

\* the update thread has ended on the LookupError of get_all_to_update for a responder
\* that was wiped while active, and the lock is still held
C37_Witness ==
    /\ upc = "dead" /\ lock
    /\ catch_http_exception
    /\ ~Registered(responders[uri])

\* C38: the comment thread and the submission thread never execute a statement on the same
\* Database object at the same time.
C38_OneLoopPerDatabase ==
    InUse("comment") # "none" => InUse("comment") # InUse("submission")

\* the comment thread writes a ban through database_subm after a Forbidden while the
\* submission thread is inside insert_into_storage on database_subm
C38_Witness ==
    /\ pc["comment"] = "ban" /\ InUse("comment") = "database_subm"
    /\ pc["submission"] = "record" /\ InUse("submission") = "database_subm"

\* C39: a write that names a plugin without a registry row fails and leaves the table as
\* it is: insert_into_storage, add_userban_per_module, add_subreddit_ban_per_module and
\* (through a reaction that returned True) add_to_stats; so no row with bot_module NULL,
\* the shape of a global ban, comes from a ban asked for one plugin.
C39_WritesNeedRegisteredHandler ==
    \A h \in BotNames : ~Registered(h) =>
        /\ \A th \in Things :
              /\ insert_into_storage(storage, modules, th.name, h, now) = storage
              /\ comment_submission_action(th, h, "True", now).stats = stats
        /\ \A u \in Users : add_ban_per_module(userbans, modules, u, h) = userbans
        /\ \A sr \in Subreddits : add_ban_per_module(subbans, modules, sr, h) = subbans

\* add_userban_per_module was called for a plugin that is not registered, and the table
\* holds the row it wrote: a ban of the user with bot_module NULL
C39_Witness ==
    /\ lastAdmin.op = "add_userban"
    /\ lastAdmin.name \in BotNames /\ ~Registered(lastAdmin.name)
    /\ \E b \in DOMAIN userbans : b.bot_module = NULL /\ GlobalBan(userbans, b.subject)

\* C40: table update_threads holds at most one task for each pair of thing and plugin.
C40_OneTaskPerPair ==
    \A r, q \in update_threads :
        (r.thing_id = q.thing_id /\ r.bot_module = q.bot_module) => r.rid = q.rid

\* two tasks for one pair were both called back in one tick, and the timestamp write of
\* the second firing is on both rows
C40_Witness ==
    \E r, q \in update_threads :
        /\ r.rid # q.rid /\ r.thing_id = q.thing_id /\ r.bot_module = q.bot_module
        /\ r.rid \in DOMAIN cbCount /\ q.rid \in DOMAIN cbCount
        /\ r.last_updated = now /\ q.last_updated = now /\ r.created < now /\ q.created < now

====
